---- MODULE Spec2Model ----
(***************************************************************************)
(* Model of github_streamlit.py: an Excel-backed record manager.  Each     *)
(* logical table is one spreadsheet file that every operation reads whole  *)
(* and rewrites whole.  The handlers take (table_name, file_path) as the   *)
(* source functions do; show_main_app builds file_path from excel_folder,  *)
(* a name the file does not define.  Spec and SpecConc model the handlers  *)
(* from their own entry points, run by sessions that are logged in;        *)
(* SpecAuth models main, the login form and show_main_app around them,     *)
(* with excel_folder unbound, naming no folder, or naming the folder.      *)
(*                                                                         *)
(* Text is a sequence of one-character strings, so that strip() and        *)
(* lower() are computed rather than assumed.  A cell is a record           *)
(* [kind, s]: kind "nan" (NaN / None / NaT), "str" (text s) or "date"      *)
(* (a timestamp whose text form is s).  A DataFrame is [cols, rows]: the   *)
(* set of column names and the sequence of rows, each a function from the  *)
(* column names to cells.  A file is a DataFrame plus an `exists` flag.    *)
(* A cell written by to_excel is read back unchanged by read_excel: the    *)
(* texts used here are none of those the reader takes for a missing value. *)
(***************************************************************************)
EXTENDS Integers, Sequences, FiniteSets, TLC

\* Largest number of rows a table may grow to.
MaxRows == 2

VARIABLES
    selected_table_name,  \* the dataset selected in the sidebar
    file,                 \* the backing Excel file of that dataset
    last,                 \* the last handler run: [op, key, signals]
    sess,                 \* per browser session: the script run in progress
    session_state,        \* per browser session: st.session_state
    excel_folder          \* the folder show_main_app looks the files up in

vars == <<selected_table_name, file, last, sess, session_state, excel_folder>>

\* ---------------------------------------------------------------- text --
a1 == <<"a", "1">>
A1 == <<"A", "1">>
a1sp == <<"a", "1", " ">>
b2 == <<"b", "2">>
blank == <<" ">>
empty == <<>>
nan_text == <<"n", "a", "n">>
nat_text == <<"n", "a", "t">>
NaN_text == <<"N", "a", "N">>
x_text == <<"x">>
y2020 == <<"2", "0", "2", "0">>

Digits == {"0", "1", "2"}

\* str.lower(), one character at a time
LowerChar(c) ==
    CASE c = "A" -> "a"
      [] c = "B" -> "b"
      [] c = "N" -> "n"
      [] c = "T" -> "t"
      [] c = "X" -> "x"
      [] OTHER -> c

lower(s) == [i \in 1..Len(s) |-> LowerChar(s[i])]

RECURSIVE lstrip(_)
lstrip(s) == IF s # <<>> /\ Head(s) = " " THEN lstrip(Tail(s)) ELSE s

RECURSIVE rstrip(_)
rstrip(s) ==
    IF s # <<>> /\ s[Len(s)] = " " THEN rstrip(SubSeq(s, 1, Len(s) - 1)) ELSE s

\* str.strip()
strip(s) == rstrip(lstrip(s))

\* --------------------------------------------------------------- cells --
NaN == [kind |-> "nan", s |-> <<>>]
Str(s) == [kind |-> "str", s |-> s]
Date(s) == [kind |-> "date", s |-> s]

\* Series.isnull() on one cell
isnull(c) == c.kind = "nan"

\* Series.astype(str) on one cell: NaN becomes the text 'nan'
astype_str(c) == IF c.kind = "nan" THEN nan_text ELSE c.s

\* Series.str.strip() on one cell of an object column: a cell that is not
\* text comes back as NaN
str_strip(c) == IF c.kind = "str" THEN Str(strip(c.s)) ELSE NaN

\* what the date parser accepts among the texts of this model: a year
IsDateText(s) == Len(s) = 4 /\ \A i \in 1..Len(s) : s[i] \in Digits

\* pd.to_datetime(errors='coerce') on one cell
to_datetime(c) ==
    CASE c.kind = "date" -> c
      [] c.kind = "str" /\ IsDateText(strip(c.s)) -> Date(strip(c.s))
      [] OTHER -> NaN

\* ------------------------------------------------------- configuration --
EXCEL_FILES == {"students", "college_admin_data"}

PRIMARY_KEYS == [t \in EXCEL_FILES |->
                    IF t = "students" THEN "student_id" ELSE "admin_id"]

\* str.lower() on the column names that occur
ColLower(c) ==
    CASE c = "Admin_ID" -> "admin_id"
      [] c = "Full_Name" -> "full_name"
      [] OTHER -> c

\* 'date' in col.lower() or 'dob' in col.lower(), on the column names that occur
IsDateLike(c) == ColLower(c) \in {"date_joined", "dob"}

\* ---------------------------------------------------------- DataFrames --
EmptyDF == [cols |-> {}, rows |-> <<>>]

NoFile == [exists |-> FALSE, cols |-> {}, rows |-> <<>>]

FileOf(df) == [exists |-> TRUE, cols |-> df.cols, rows |-> df.rows]

\* DataFrame.empty
df_empty(df) == df.cols = {} \/ df.rows = <<>>

\* pd.read_excel
read_excel(f) == [cols |-> f.cols, rows |-> f.rows]

\* df.columns = df.columns.str.strip().str.lower()
lower_columns(df) ==
    LET newcols == {ColLower(c) : c \in df.cols}
        old(c) == CHOOSE d \in df.cols : ColLower(d) = c
    IN  [cols |-> newcols,
         rows |-> [i \in 1..Len(df.rows) |->
                      [c \in newcols |-> df.rows[i][old(c)]]]]

\* the column is selected by select_dtypes(include=['object'])
IsObjectCol(df, c) == \E i \in 1..Len(df.rows) : df.rows[i][c].kind = "str"

\* df[col] = df[col].str.strip() for the columns cs
strip_columns(df, cs) ==
    [df EXCEPT !.rows = [i \in 1..Len(df.rows) |->
                            [c \in df.cols |->
                                IF c \in cs THEN str_strip(df.rows[i][c])
                                ELSE df.rows[i][c]]]]

\* df[col] = pd.to_datetime(df[col], errors='coerce') for the columns cs
to_datetime_columns(df, cs) ==
    [df EXCEPT !.rows = [i \in 1..Len(df.rows) |->
                            [c \in df.cols |->
                                IF c \in cs THEN to_datetime(df.rows[i][c])
                                ELSE df.rows[i][c]]]]

\* the values of one column, top to bottom
Column(df, c) == [i \in 1..Len(df.rows) |-> df.rows[i][c]]

Values(seq) == {seq[i] : i \in 1..Len(seq)}

\* ------------------------------------------------------------- loading --
\* get_table_data: the file as the editor and the delete tab see it.  A
\* missing file and a failed read both give an empty DataFrame.
get_table_data(f, readOk) ==
    IF f.exists /\ readOk
    THEN LET df == lower_columns(read_excel(f))
         IN  strip_columns(df, {c \in df.cols : IsObjectCol(df, c)})
    ELSE EmptyDF

\* check_pk_exists comparing the candidate with the stored text as it is
check_pk_exists_exact(f, pk_column_name, pk_value, readOk) ==
    IF ~f.exists \/ ~readOk THEN FALSE
    ELSE LET df == lower_columns(read_excel(f))
             pk == ColLower(pk_column_name)
         IN  IF pk \notin df.cols THEN FALSE
             ELSE lower(strip(pk_value)) \in
                    {astype_str(df.rows[i][pk]) : i \in 1..Len(df.rows)}

\* check_pk_exists: False for a missing file, a failed read or a missing
\* column; otherwise membership of the stripped, lowercased candidate among
\* the stripped, lowercased string forms of the column.
check_pk_exists(f, pk_column_name, pk_value, readOk) ==
    IF ~f.exists THEN FALSE
    ELSE IF ~readOk THEN FALSE
    ELSE LET df == lower_columns(read_excel(f))
             pk == ColLower(pk_column_name)
         IN  IF pk \notin df.cols THEN FALSE
             ELSE lower(strip(pk_value)) \in
                    {lower(strip(astype_str(df.rows[i][pk]))) :
                        i \in 1..Len(df.rows)}

\* ----------------------------------------------------------------- Add --
\* no coercion at all
coerce_dates_skipped(df) == df

\* the columns of df whose name is date-like, coerced with to_datetime
coerce_dates(df) == to_datetime_columns(df, {c \in df.cols : IsDateLike(c)})

\* pd.DataFrame([new_record])
new_df_row(new_record) == [cols |-> DOMAIN new_record, rows |-> <<new_record>>]

\* the new row made to match the existing columns: a column it lacks is NaN,
\* a field that is no existing column is dropped
match_columns(row, cols) ==
    [c \in cols |-> IF c \in DOMAIN row THEN row[c] ELSE NaN]

\* the append that keeps the record's fields as new columns
appended_union(f, new_record, readOk) ==
    IF f.exists /\ readOk
    THEN LET df == lower_columns(read_excel(f))
             cols == df.cols \cup DOMAIN new_record
         IN  [cols |-> cols,
              rows |-> [i \in 1..(Len(df.rows) + 1) |->
                          IF i <= Len(df.rows)
                          THEN match_columns(df.rows[i], cols)
                          ELSE match_columns(new_record, cols)]]
    ELSE new_df_row(new_record)

\* the DataFrame update_table writes
appended(f, new_record, readOk) ==
    IF f.exists
    THEN IF readOk
         THEN LET df == lower_columns(read_excel(f))
              IN  [cols |-> df.cols,
                   rows |-> Append(df.rows, match_columns(new_record, df.cols))]
         ELSE new_df_row(new_record)
    ELSE new_df_row(new_record)

\* a write that does not replace a file that is already there
to_excel_keep(f, df, writeOk) == IF writeOk /\ ~f.exists THEN FileOf(df) ELSE f

\* df.to_excel(file_path): the whole file is replaced by df, whatever it
\* holds by now; a failed write leaves it as it is
to_excel(f, df, writeOk) == IF writeOk THEN FileOf(df) ELSE f

\* update_table: append, coerce the date-like columns, write the whole file.
\* A failed read of an existing file is reported and the file is then
\* overwritten with the new record alone.  `signals` are the messages shown.
update_table(f, new_record, readOk, writeOk) ==
    LET df == coerce_dates(appended(f, new_record, readOk))
        read_err == IF f.exists /\ ~readOk THEN {"ReadError"} ELSE {}
    IN  [file |-> to_excel(f, df, writeOk),
         signals |-> read_err \cup
                     (IF writeOk THEN {"Success"} ELSE {"WriteError"})]

\* the record the college_admin_data form builds (text fields stripped)
admin_record(form) ==
    [admin_id |-> Str(strip(form.id)),
     full_name |-> Str(strip(form.name)),
     date_joined |-> form.joined]

\* add_new_record_form on submit.  form = [id, name, joined].  The students
\* form reads the undefined name student_name and raises NameError before
\* any check or write; show_main_app reports it.
add_new_record_form(table_name, f, form, checkOk, readOk, writeOk) ==
    IF table_name = "students"
    THEN [file |-> f, signals |-> {"NameError"}]
    ELSE IF (strip(form.id) = <<>> \/ strip(form.name) = <<>>)
            /\ (form.id = <<>> \/ form.name = <<>>)
    THEN [file |-> f, signals |-> {"RequiredFieldError"}]
    ELSE IF strip(form.id) = <<>>
    THEN [file |-> f, signals |-> {"EmptyKeyError"}]
    ELSE IF check_pk_exists(f, PRIMARY_KEYS[table_name], form.id, checkOk)
    THEN [file |-> f, signals |-> {"DuplicateKeyError"}]
    ELSE LET out == update_table(f, admin_record(form), readOk, writeOk)
         IN  [out EXCEPT !.signals =
                 @ \cup (IF f.exists /\ ~checkOk THEN {"CheckError"} ELSE {})]

\* -------------------------------------------------------------- Update --
NoEdit == [row |-> 0, col |-> "", val |-> NaN]

\* the DataFrame st.data_editor returns: df with the user's cell edit
data_editor(df, edit) ==
    IF edit.row \in 1..Len(df.rows) /\ edit.col \in df.cols
    THEN [df EXCEPT !.rows[edit.row][edit.col] = edit.val]
    ELSE df

\* the emptiness test without the comparison with ''
pk_is_empty_null_only(c) == isnull(c)

\* the emptiness test of the primary-key column on one cell
pk_is_empty(c) ==
    \/ isnull(c)
    \/ astype_str(c) = <<>>
    \/ lower(astype_str(c)) = nan_text
    \/ lower(astype_str(c)) = nat_text

\* pk_series_str.duplicated().any()
has_duplicates(seq) ==
    \E i, j \in 1..Len(seq) : i < j /\ seq[i] = seq[j]

\* the 'Save Changes' branch of display_data_editor: df is the table the
\* editor was given, f the file at the time of the write
save_changes(table_name, f, df, edit, writeOk) ==
    LET edited_df == lower_columns(data_editor(df, edit))
        pk_col == PRIMARY_KEYS[table_name]
        pk_series_str == [i \in 1..Len(edited_df.rows) |->
                             astype_str(edited_df.rows[i][pk_col])]
    IN  IF data_editor(df, edit) = df
        THEN [file |-> f, signals |-> {"NoChange"}]
        ELSE IF pk_col \notin edited_df.cols
        THEN [file |-> f, signals |-> {"SchemaError"}]
        ELSE IF \E i \in 1..Len(edited_df.rows) :
                    pk_is_empty(edited_df.rows[i][pk_col])
        THEN [file |-> f, signals |-> {"EmptyKeyError"}]
        ELSE IF has_duplicates(pk_series_str)
        THEN [file |-> f, signals |-> {"DuplicateKeyError"}]
        ELSE [file |-> to_excel(f, edited_df, writeOk),
              signals |-> IF writeOk THEN {"Success"} ELSE {"WriteError"}]

\* display_data_editor with 'Save Changes' pressed
display_data_editor(table_name, f, edit, readOk, writeOk) ==
    LET df == get_table_data(f, readOk)
    IN  IF df_empty(df) /\ ~f.exists
        THEN [file |-> f, signals |-> {"FileMissing"}]
        ELSE LET out == save_changes(table_name, f, df, edit, writeOk)
             IN  [out EXCEPT !.signals =
                     @ \cup (IF f.exists /\ ~readOk THEN {"ReadError"} ELSE {})]

\* -------------------------------------------------------------- Delete --
\* the ids the delete tab offers: the non-null keys of the loaded table as
\* text, without blank ones and without 'nan' / 'nat'
valid_ids_to_delete(table_name, f, readOk) ==
    LET df_delete == get_table_data(f, readOk)
        pk == PRIMARY_KEYS[table_name]
    IN  IF df_empty(df_delete) \/ pk \notin df_delete.cols THEN {}
        ELSE {s \in {astype_str(c) :
                        c \in {d \in Values(Column(df_delete, pk)) : ~isnull(d)}} :
                 strip(s) # <<>> /\ lower(s) \notin {nan_text, nat_text}}

\* the part of delete_record after the read: filter df by exact string
\* comparison and write only when a row went away
delete_filtered(table_name, f, df, record_id_to_delete, writeOk) ==
    LET pk_column == ColLower(PRIMARY_KEYS[table_name])
    IN  IF pk_column \notin df.cols
        THEN [file |-> f, signals |-> {"SchemaError"}]
        ELSE LET df_filtered ==
                   [df EXCEPT !.rows = SelectSeq(df.rows,
                       LAMBDA r : astype_str(r[pk_column])
                                     # record_id_to_delete)]
             IN  IF Len(df_filtered.rows) < Len(df.rows)
                 THEN [file |-> to_excel(f, df_filtered, writeOk),
                       signals |-> IF writeOk THEN {"Success"}
                                   ELSE {"WriteError"}]
                 ELSE [file |-> f, signals |-> {"NotFound"}]

\* delete_record.  The signal "Success" is the return value True.
delete_record(table_name, f, record_id_to_delete, readOk, writeOk) ==
    IF ~f.exists THEN [file |-> f, signals |-> {"FileMissing"}]
    ELSE IF ~readOk THEN [file |-> f, signals |-> {"ReadError"}]
    ELSE delete_filtered(table_name, f, lower_columns(read_excel(f)),
                         record_id_to_delete, writeOk)

\* ------------------------------------------------------- state machine --
Row2(c1, v1, c2, v2) == [c \in {c1, c2} |-> IF c = c1 THEN v1 ELSE v2]

Row3(c1, v1, c2, v2, c3, v3) ==
    [c \in {c1, c2, c3} |-> IF c = c1 THEN v1 ELSE IF c = c2 THEN v2 ELSE v3]

\* The files the program starts from: none yet, or a spreadsheet prepared by
\* hand (keys unique and non-empty): one with the columns of the form, one
\* with a header not yet normalised, a column the form does not know and a
\* date typed as text, one without the key column.
InitFiles(t) ==
    IF t = "students"
    THEN {NoFile,
          [exists |-> TRUE, cols |-> {"student_id", "dob"},
           rows |-> <<Row2("student_id", Str(a1), "dob", Date(y2020)),
                      Row2("student_id", Str(b2), "dob", Str(x_text))>>]}
    ELSE {NoFile,
          [exists |-> TRUE, cols |-> {"admin_id", "full_name", "date_joined"},
           rows |-> <<Row3("admin_id", Str(a1), "full_name", Str(x_text),
                           "date_joined", Date(y2020))>>],
          [exists |-> TRUE, cols |-> {"Admin_ID", "notes", "date_joined"},
           rows |-> <<Row3("Admin_ID", Str(b2), "notes", Str(x_text),
                           "date_joined", Str(x_text))>>],
          [exists |-> TRUE, cols |-> {"full_name", "date_joined"},
           rows |-> <<Row2("full_name", Str(x_text),
                           "date_joined", Date(y2020))>>]}

\* what a user may type into the forms and the editor
FormKeys == {a1, A1, a1sp, b2, blank, empty}
FormNames == {x_text, empty}
Forms == [id : FormKeys, name : FormNames, joined : {Date(y2020)}]

EditKeys == {A1, a1sp, blank}

\* a key cell may be retyped (to one of keys) or cleared, a date cell cleared
EditValues(c, keys) ==
    IF c \in {"student_id", "admin_id"}
    THEN {Str(k) : k \in keys} \cup {NaN}
    ELSE IF IsDateLike(c) THEN {NaN}
    ELSE {}

EditsWith(df, keys) ==
    {NoEdit} \cup
    UNION {UNION {{[row |-> i, col |-> c, val |-> v] : v \in EditValues(c, keys)} :
                     c \in df.cols} : i \in 1..Len(df.rows)}

Edits(df) == EditsWith(df, EditKeys)

\* what the file system does while a record is added: at most one failure
IO == {"ok", "check_fails", "read_fails", "write_fails"}

NoOp == [op |-> "None", key |-> empty, signals |-> {}]

\* Streamlit runs each browser session's script in a thread of its own.
Sessions == {"A", "B"}

\* A session between script runs.  pc is the position of its run; df the
\* DataFrame the run holds; stale records that another session wrote the
\* file after this run read it (history, for stating properties only).
IdleSession == [pc |-> "idle", op |-> "None", key |-> empty, df |-> EmptyDF,
                stale |-> FALSE, signals |-> {}]

\* st.session_state once login_form has accepted username
LoggedInAs(username) == [keys |-> {"logged_in", "username"},
                         logged_in |-> TRUE, username |-> username]

\* The handlers are run by sessions that are logged in, with the folder of
\* the files in place.
Init ==
    /\ selected_table_name \in EXCEL_FILES
    /\ file \in InitFiles(selected_table_name)
    /\ last = NoOp
    /\ sess = [s \in Sessions |-> IdleSession]
    /\ session_state = [s \in Sessions |-> LoggedInAs("admin")]
    /\ excel_folder = "dir"

\* 'Add ... Record' submitted with a filled form
AddRecord ==
    \E form \in Forms, io \in IO :
        LET out == add_new_record_form(selected_table_name, file, form,
                                       io # "check_fails", io # "read_fails",
                                       io # "write_fails")
        IN  /\ Len(file.rows) < MaxRows
            /\ file' = out.file
            /\ last' = [op |-> "Add", key |-> form.id, signals |-> out.signals]
            /\ UNCHANGED <<selected_table_name, session_state, excel_folder, sess>>

\* 'Save Changes' pressed after at most one cell edit
SaveChanges ==
    \E edit \in Edits(get_table_data(file, TRUE)) :
        LET out == display_data_editor(selected_table_name, file, edit,
                                       TRUE, TRUE)
        IN  /\ file' = out.file
            /\ last' = [op |-> "Update", key |-> empty,
                        signals |-> out.signals]
            /\ UNCHANGED <<selected_table_name, session_state, excel_folder, sess>>

\* 'Delete Selected Record' pressed with one of the offered ids selected
DeleteSelected ==
    \E record_to_delete \in valid_ids_to_delete(selected_table_name, file, TRUE) :
        LET out == delete_record(selected_table_name, file, record_to_delete,
                                 TRUE, TRUE)
        IN  /\ file' = out.file
            /\ last' = [op |-> "Delete", key |-> record_to_delete,
                        signals |-> out.signals]
            /\ UNCHANGED <<selected_table_name, session_state, excel_folder, sess>>

Next == AddRecord \/ SaveChanges \/ DeleteSelected

Spec == Init /\ [][Next]_vars

\* ------------------------------------------------ concurrent sessions --
\* Two sessions on college_admin_data, each file access of a handler a step
\* of its own.  No access fails here.
ConcKeys == {a1, b2}

ConcInit ==
    /\ selected_table_name = "college_admin_data"
    /\ file \in {NoFile,
                 [exists |-> TRUE, cols |-> {"admin_id", "full_name", "date_joined"},
                  rows |-> <<Row3("admin_id", Str(a1), "full_name", Str(x_text),
                                  "date_joined", Date(y2020))>>]}
    /\ last = NoOp
    /\ sess = [s \in Sessions |-> IdleSession]
    /\ session_state = [s \in Sessions |-> LoggedInAs("admin")]
    /\ excel_folder = "dir"

ConcForm(k) == [id |-> k, name |-> x_text, joined |-> Date(y2020)]

ConcEdits(df) ==
    {NoEdit} \cup
    {[row |-> i, col |-> "admin_id", val |-> Str(k)] :
        i \in 1..Len(df.rows), k \in ConcKeys}

\* the run of session s ends with these signals
Finish(s, op, key, signals) ==
    /\ last' = [op |-> op, key |-> key, signals |-> signals]
    /\ sess' = [sess EXCEPT ![s] = [@ EXCEPT !.pc = "idle", !.op = op,
                                               !.key = key, !.df = EmptyDF,
                                               !.signals = signals]]

\* session s replaces the file: the runs of the others that hold a table
\* read earlier are now stale
FinishWrite(s, op, key, signals) ==
    /\ last' = [op |-> op, key |-> key, signals |-> signals]
    /\ sess' = [t \in Sessions |->
                  IF t = s
                  THEN [sess[s] EXCEPT !.pc = "idle", !.op = op, !.key = key,
                                       !.df = EmptyDF, !.signals = signals]
                  ELSE IF sess[t].pc \in {"add_read", "edit_loaded", "del_read"}
                  THEN [sess[t] EXCEPT !.stale = TRUE]
                  ELSE sess[t]]

\* add_new_record_form up to check_pk_exists
AddCheck(s) ==
    \E k \in ConcKeys :
        /\ sess[s].pc = "idle"
        /\ Len(file.rows) < MaxRows
        /\ UNCHANGED <<selected_table_name, session_state, excel_folder, file>>
        /\ IF check_pk_exists(file, PRIMARY_KEYS[selected_table_name], k, TRUE)
           THEN Finish(s, "Add", k, {"DuplicateKeyError"})
           ELSE /\ sess' = [sess EXCEPT ![s] =
                              [pc |-> "add_checked", op |-> "Add", key |-> k,
                               df |-> EmptyDF, stale |-> FALSE, signals |-> {}]]
                /\ UNCHANGED last

\* update_table up to the DataFrame it is about to write
AddRead(s) ==
    /\ sess[s].pc = "add_checked"
    /\ Len(file.rows) < MaxRows
    /\ sess' = [sess EXCEPT ![s].pc = "add_read",
                            ![s].df = coerce_dates(appended(file,
                                          admin_record(ConcForm(sess[s].key)),
                                          TRUE))]
    /\ UNCHANGED <<selected_table_name, session_state, excel_folder, file, last>>

\* update_table: df.to_excel
AddWrite(s) ==
    /\ sess[s].pc = "add_read"
    /\ file' = to_excel(file, sess[s].df, TRUE)
    /\ FinishWrite(s, "Add", sess[s].key, {"Success"})
    /\ UNCHANGED <<selected_table_name, session_state, excel_folder>>

\* display_data_editor: get_table_data
EditLoad(s) ==
    /\ sess[s].pc = "idle"
    /\ UNCHANGED <<selected_table_name, session_state, excel_folder, file>>
    /\ LET df == get_table_data(file, TRUE)
       IN  IF df_empty(df) /\ ~file.exists
           THEN Finish(s, "Update", empty, {"FileMissing"})
           ELSE /\ sess' = [sess EXCEPT ![s] =
                              [pc |-> "edit_loaded", op |-> "Update",
                               key |-> empty, df |-> df, stale |-> FALSE,
                               signals |-> {}]]
                /\ UNCHANGED last

\* display_data_editor: 'Save Changes'
EditSave(s) ==
    /\ sess[s].pc = "edit_loaded"
    /\ \E edit \in ConcEdits(sess[s].df) :
         LET out == save_changes(selected_table_name, file, sess[s].df, edit, TRUE)
         IN  /\ file' = out.file
             /\ IF "Success" \in out.signals
                THEN FinishWrite(s, "Update", empty, out.signals)
                ELSE Finish(s, "Update", empty, out.signals)
    /\ UNCHANGED <<selected_table_name, session_state, excel_folder>>

\* the delete tab: get_table_data and the id selected among those offered
DeleteSelect(s) ==
    /\ sess[s].pc = "idle"
    /\ \E k \in valid_ids_to_delete(selected_table_name, file, TRUE) :
         sess' = [sess EXCEPT ![s] =
                    [pc |-> "del_selected", op |-> "Delete", key |-> k,
                     df |-> EmptyDF, stale |-> FALSE, signals |-> {}]]
    /\ UNCHANGED <<selected_table_name, session_state, excel_folder, file, last>>

\* delete_record: read_excel
DeleteRead(s) ==
    /\ sess[s].pc = "del_selected"
    /\ UNCHANGED <<selected_table_name, session_state, excel_folder, file>>
    /\ IF ~file.exists
       THEN Finish(s, "Delete", sess[s].key, {"FileMissing"})
       ELSE /\ sess' = [sess EXCEPT ![s].pc = "del_read",
                                    ![s].df = lower_columns(read_excel(file))]
            /\ UNCHANGED last

\* delete_record: filter and df_filtered.to_excel
DeleteWrite(s) ==
    /\ sess[s].pc = "del_read"
    /\ LET out == delete_filtered(selected_table_name, file, sess[s].df,
                                  sess[s].key, TRUE)
       IN  /\ file' = out.file
           /\ IF "Success" \in out.signals
              THEN FinishWrite(s, "Delete", sess[s].key, out.signals)
              ELSE Finish(s, "Delete", sess[s].key, out.signals)
    /\ UNCHANGED <<selected_table_name, session_state, excel_folder>>

ConcNext ==
    \E s \in Sessions :
        \/ AddCheck(s)
        \/ AddRead(s)
        \/ AddWrite(s)
        \/ EditLoad(s)
        \/ EditSave(s)
        \/ DeleteSelect(s)
        \/ DeleteRead(s)
        \/ DeleteWrite(s)

SpecConc == ConcInit /\ [][ConcNext]_vars

\* ------------------------------------------------------ login / logout --
USERS == [u \in {"admin", "user1"} |->
             IF u = "admin" THEN "password123" ELSE "pass"]

\* st.session_state of a session that has not run the script yet.  The
\* dictionary is the record of its two possible entries with `keys`, the
\* set of those present; an entry that is absent holds its blank value.
NoState == [keys |-> {}, logged_in |-> FALSE, username |-> ""]

\* k in st.session_state
ss_has(ss, k) == k \in ss.keys

\* st.session_state.get(k, default)
ss_get(ss, k, default) == IF ss_has(ss, k) THEN ss[k] ELSE default

\* st.session_state[k] = v
ss_set(ss, k, v) == [ss EXCEPT !.keys = @ \cup {k}, ![k] = v]

\* del st.session_state[k], when k is in it
ss_del(ss, k) == [ss EXCEPT !.keys = @ \ {k}, ![k] = NoState[k]]

\* what the browser sends with a script run: the widget pressed and its input
NoEvent == [kind |-> "none", username |-> "", password |-> "",
            form |-> [id |-> empty, name |-> empty, joined |-> NaN],
            edit |-> NoEdit, id |-> empty]

\* what one run of the script leaves: the session state, the file, the
\* handler that ran (op, key), the messages shown and whether st.rerun()
\* ended the run
Ran(ss, f, op, key, signals, rerun) ==
    [state |-> ss, file |-> f, op |-> op, key |-> key, signals |-> signals,
     rerun |-> rerun]

\* username in USERS and USERS[username] == password
authenticate(username, password) ==
    username \in DOMAIN USERS /\ USERS[username] = password

\* login_form: the form, and on 'Login' the credential test
login_form(ss, f, ev) ==
    IF ev.kind = "login"
    THEN IF authenticate(ev.username, ev.password)
         THEN Ran(ss_set(ss_set(ss, "logged_in", TRUE), "username", ev.username),
                  f, "Login", <<ev.username, ev.password>>,
                  {"LoginForm", "LoggedIn"}, TRUE)
         ELSE Ran(ss, f, "Login", <<ev.username, ev.password>>,
                  {"LoginForm", "IncorrectLogin"}, FALSE)
    ELSE Ran(ss, f, "None", empty, {"LoginForm"}, FALSE)

\* logout: both keys are deleted and the script is run again
logout(ss, f) ==
    Ran(ss_del(ss_del(ss, "logged_in"), "username"), f, "Logout", empty,
        {"Welcome", "LoggedOut"}, TRUE)

\* the three tabs of show_main_app: the handler of the widget pressed
tabs(table_name, ss, f, ev) ==
    CASE ev.kind = "save" ->
           LET out == display_data_editor(table_name, f, ev.edit, TRUE, TRUE)
           IN  Ran(ss, out.file, "Update", empty,
                   {"Welcome"} \cup out.signals, FALSE)
      [] ev.kind = "add" ->
           LET out == add_new_record_form(table_name, f, ev.form,
                                          TRUE, TRUE, TRUE)
           IN  Ran(ss, out.file, "Add", ev.form.id,
                   {"Welcome"} \cup out.signals, FALSE)
      [] ev.kind = "delete"
           /\ ev.id \in valid_ids_to_delete(table_name, f, TRUE) ->
           LET out == delete_record(table_name, f, ev.id, TRUE, TRUE)
           IN  Ran(ss, out.file, "Delete", ev.id,
                   {"Welcome"} \cup out.signals, "Success" \in out.signals)
      [] OTHER -> Ran(ss, f, "None", empty, {"Welcome"}, FALSE)

\* show_main_app: the sidebar with 'Logout', then file_path from
\* excel_folder (NameError when the name is not bound, st.stop() when the
\* folder is not there), then the tabs
show_main_app(folder, table_name, ss, f, ev) ==
    IF ev.kind = "logout" THEN logout(ss, f)
    ELSE IF folder = "unbound"
    THEN Ran(ss, f, "None", empty, {"Welcome", "NameError"}, FALSE)
    ELSE IF folder = "no_dir"
    THEN Ran(ss, f, "None", empty, {"Welcome", "FolderMissing"}, FALSE)
    ELSE tabs(table_name, ss, f, ev)

\* main dispatching on the event alone, whatever the session state
main_ungated(folder, table_name, ss, f, ev) ==
    IF ev.kind = "login" THEN login_form(ss, f, ev)
    ELSE show_main_app(folder, table_name, ss, f, ev)

\* main: logged_in defaults to False; the login form unless it is true
main(folder, table_name, ss, f, ev) ==
    LET ss1 == IF ~ss_has(ss, "logged_in")
               THEN ss_set(ss, "logged_in", FALSE) ELSE ss
    IN  IF ~ss_get(ss1, "logged_in", FALSE)
        THEN login_form(ss1, f, ev)
        ELSE show_main_app(folder, table_name, ss1, f, ev)

\* the run that follows st.rerun(), without input; the messages of both
\* runs are kept
rerun(folder, table_name, first) ==
    LET again == main(folder, table_name, first.state, first.file, NoEvent)
    IN  Ran(again.state, again.file, first.op, first.key,
            first.signals \cup again.signals, FALSE)

\* one interaction: the script run it triggers and, after st.rerun(), the
\* run that follows
script_run(folder, table_name, ss, f, ev) ==
    CHOOSE out \in {IF first.rerun THEN rerun(folder, table_name, first)
                    ELSE first :
                       first \in {main(folder, table_name, ss, f, ev)}} : TRUE

\* ------------------------------------------------- sessions that log in --
\* Two sessions on college_admin_data, each starting without a session
\* state.  A request may carry the input of any widget, also of one the
\* last run did not show.
Usernames == {"admin", "user1", "guest"}
Passwords == {"password123", "pass"}

AuthInit ==
    /\ selected_table_name = "college_admin_data"
    /\ file \in {NoFile,
                 [exists |-> TRUE, cols |-> {"admin_id", "full_name", "date_joined"},
                  rows |-> <<Row3("admin_id", Str(a1), "full_name", Str(x_text),
                                  "date_joined", Date(y2020))>>]}
    /\ last = NoOp
    /\ sess = [s \in Sessions |-> IdleSession]
    /\ session_state = [s \in Sessions |-> NoState]
    /\ excel_folder \in {"unbound", "no_dir", "dir"}

\* the messages of the page itself, as against those of a handler
PageSignals == {"LoginForm", "Welcome", "LoggedIn", "LoggedOut",
                "IncorrectLogin", "NameError", "FolderMissing"}

\* session s sends ev and the script runs
Run(s, ev) ==
    \E out \in {script_run(excel_folder, selected_table_name,
                           session_state[s], file, ev)} :
        /\ session_state' = [session_state EXCEPT ![s] = out.state]
        /\ file' = out.file
        /\ sess' = [sess EXCEPT ![s] = [IdleSession EXCEPT !.op = out.op,
                                           !.key = out.key,
                                           !.signals = out.signals]]
        /\ last' = IF out.op \in {"Add", "Update", "Delete"}
                   THEN [op |-> out.op, key |-> out.key,
                         signals |-> out.signals \ PageSignals]
                   ELSE last
        /\ UNCHANGED <<selected_table_name, excel_folder>>

\* the page is opened or reloaded
PageLoad(s) == Run(s, NoEvent)

\* 'Login' pressed
LoginSubmit(s) ==
    \E username \in Usernames, password \in Passwords :
        Run(s, [NoEvent EXCEPT !.kind = "login", !.username = username,
                               !.password = password])

\* 'Logout' pressed
LogoutClick(s) == Run(s, [NoEvent EXCEPT !.kind = "logout"])

\* 'Add Admin Staff Record' pressed
AddSubmit(s) ==
    \E k \in ConcKeys :
        /\ Len(file.rows) < MaxRows
        /\ Run(s, [NoEvent EXCEPT !.kind = "add", !.form = ConcForm(k)])

\* 'Save Changes' pressed
SaveClick(s) ==
    \E edit \in ConcEdits(get_table_data(file, TRUE)) :
        Run(s, [NoEvent EXCEPT !.kind = "save", !.edit = edit])

\* 'Delete Selected Record' pressed
DeleteClick(s) ==
    \E k \in ConcKeys :
        Run(s, [NoEvent EXCEPT !.kind = "delete", !.id = k])

AuthNext ==
    \E s \in Sessions :
        \/ PageLoad(s)
        \/ LoginSubmit(s)
        \/ LogoutClick(s)
        \/ AddSubmit(s)
        \/ SaveClick(s)
        \/ DeleteClick(s)

SpecAuth == AuthInit /\ [][AuthNext]_vars

\* -------------------------------------------------------------- claims --
\* the identity of a key: trimmed and lowercased text
Norm(s) == lower(strip(s))

PkName == PRIMARY_KEYS[selected_table_name]

\* the headers of f that name the primary-key column once normalised
PkCols(f) == {c \in f.cols : ColLower(c) = PkName}

\* the cells of the primary-key column of f, top to bottom
KeyCells(f) ==
    IF PkCols(f) = {} THEN <<>>
    ELSE [i \in 1..Len(f.rows) |-> f.rows[i][CHOOSE c \in PkCols(f) : TRUE]]

KeyTexts(f) == [i \in 1..Len(KeyCells(f)) |-> astype_str(KeyCells(f)[i])]

\* the texts tried as keys when a handler is examined on all its inputs
TypedKeys == EditKeys \cup {a1, empty, nan_text, NaN_text, nat_text}

\* a key that is null or the empty text
IsEmptyKey(c) == c = NaN \/ c = Str(<<>>)

\* every cell of every date-like column is a date or null
DatesCoerced(f) ==
    \A c \in f.cols : IsDateLike(c) =>
        \A i \in 1..Len(f.rows) : f.rows[i][c].kind \in {"date", "nan"}

\* C9: check_pk_exists always returns a boolean: FALSE when the file does
\* not exist, when the read fails or when the file has no primary-key
\* column, and otherwise TRUE exactly when the trimmed, lowercased candidate
\* equals the trimmed, lowercased string form of a value of that column.
C9_ExistenceCheck ==
    \A v \in FormKeys \cup TypedKeys, readOk \in BOOLEAN :
        LET r == check_pk_exists(file, PkName, v, readOk)
        IN  IF ~file.exists \/ ~readOk \/ PkCols(file) = {}
            THEN r = FALSE
            ELSE r = (\E i \in 1..Len(KeyTexts(file)) :
                         Norm(KeyTexts(file)[i]) = Norm(v))

\* C9 witness: the check answers TRUE for a candidate that matches a stored
\* key only after trimming and lowercasing.
C9_Witness ==
    /\ file.exists
    /\ A1 \in Values(KeyTexts(file))
    /\ a1sp \notin Values(KeyTexts(file))
    /\ a1 \notin Values(KeyTexts(file))
    /\ check_pk_exists(file, PkName, a1sp, TRUE)

C4_UpdateRejectsNormalisedDuplicates ==
    (last.op = "Update" /\ "Success" \in last.signals) =>
        ~\E i, j \in 1..Len(KeyTexts(file)) :
            i < j /\ Norm(KeyTexts(file)[i]) = Norm(KeyTexts(file)[j])

\* C10 (as claimed): after every successful write, by Add, Update or Delete,
\* the date-like columns of the file hold only dates and nulls.
C10_EveryWriteCoercesDates == "Success" \in last.signals => DatesCoerced(file)

\* C10 (amended): after every successful write by Add the date-like columns
\* of the file hold only dates and nulls.
C10_AddCoercesDates ==
    (last.op = "Add" /\ "Success" \in last.signals) => DatesCoerced(file)

\* C10 witness: an Add has written a table in which an earlier row's
\* date-like cell is null.
C10_Witness ==
    /\ last.op = "Add"
    /\ "Success" \in last.signals
    /\ \E c \in file.cols : IsDateLike(c) /\
          \E i \in 1..(Len(file.rows) - 1) : file.rows[i][c] = NaN

\* C2 (as claimed): after an Add of a valid record that was not refused as a
\* duplicate and whose write did not fail, check_pk_exists finds its key.
C2_AddThenExists ==
    (/\ last.op = "Add"
     /\ strip(last.key) # <<>>
     /\ last.signals \cap {"DuplicateKeyError", "RequiredFieldError",
                           "EmptyKeyError", "WriteError"} = {}) =>
        check_pk_exists(file, PkName, last.key, TRUE)

C5_DeleteByNormalisedKey ==
    [][last'.op = "Delete" =>
        LET k == last'.key
        IN  IF \E i \in 1..Len(KeyTexts(file)) : Norm(KeyTexts(file)[i]) = Norm(k)
            THEN /\ Len(file'.rows) = Len(file.rows) - 1
                 /\ \A i \in 1..Len(KeyTexts(file')) :
                       Norm(KeyTexts(file')[i]) # Norm(k)
                 /\ last'.signals = {"Success"}
            ELSE /\ file' = file
                 /\ last'.signals = {"NotFound"}]_vars

\* this step is the successful Add of form
IsAddOf(form) ==
    /\ last' = [op |-> "Add", key |-> form.id, signals |-> {"Success"}]
    /\ file' = add_new_record_form(selected_table_name, file, form,
                                   TRUE, TRUE, TRUE).file

\* C7 (as claimed): a successful Add writes the union of the existing
\* columns and the record's fields, the record's values in the appended row
\* and null where a side lacks a column; on an empty table (no file, no rows
\* or no columns) it writes exactly one row with the record's fields.
C7_AddUnionsColumns ==
    [][\A form \in Forms :
        (last'.op = "Add" /\ last'.key = form.id /\ IsAddOf(form)) =>
        LET rec == admin_record(form)
            n == Len(file'.rows)
        IN  IF ~file.exists \/ file.rows = <<>> \/ file.cols = {}
            THEN /\ file'.cols = DOMAIN rec
                 /\ n = 1
                 /\ file'.rows[1] = rec
            ELSE /\ file'.cols = {ColLower(c) : c \in file.cols} \cup DOMAIN rec
                 /\ n = Len(file.rows) + 1
                 /\ \A c \in file'.cols :
                       file'.rows[n][c] = IF c \in DOMAIN rec THEN rec[c] ELSE NaN]_vars

\* this step is the Add of form under io, and it wrote the file
IsWriteOf(form, io) ==
    LET out == add_new_record_form(selected_table_name, file, form,
                                   io # "check_fails", io # "read_fails", TRUE)
    IN  /\ "Success" \in out.signals
        /\ last' = [op |-> "Add", key |-> form.id, signals |-> out.signals]
        /\ file' = out.file

\* C7 (amended): a successful Add to an existing file that can be read keeps
\* exactly the existing columns (names trimmed and lowercased): the appended
\* row holds the record's value in each column the record has and null in
\* the others, and the record's other fields are dropped; with no file, or
\* with a file that cannot be read, it writes exactly one row with the
\* record's fields.
C7_AddKeepsExistingColumns ==
    [][\A form \in Forms, io \in IO \ {"write_fails"} :
        (/\ last'.op = "Add"
         /\ last'.key = form.id
         /\ "Success" \in last'.signals
         /\ IsWriteOf(form, io)) =>
        LET rec == admin_record(form)
            n == Len(file'.rows)
        IN  IF ~file.exists \/ io = "read_fails"
            THEN /\ file'.cols = DOMAIN rec
                 /\ n = 1
                 /\ file'.rows[1] = rec
            ELSE /\ file'.cols = {ColLower(c) : c \in file.cols}
                 /\ n = Len(file.rows) + 1
                 /\ \A c \in file'.cols :
                       file'.rows[n][c] = IF c \in DOMAIN rec THEN rec[c] ELSE NaN]_vars

\* C7 witness: an Add succeeded on a file that has a column the record
\* lacks and lacks a field of the record.
C7_Witness ==
    /\ last.op = "Add"
    /\ last.signals = {"Success"}
    /\ "notes" \in file.cols
    /\ "full_name" \notin file.cols
    /\ file.rows[Len(file.rows)]["notes"] = NaN

\* C1 (as claimed): the primary-key column of the file never holds a null or
\* empty key, nor the same key in two rows.
C1_UniqueNonEmptyKeys ==
    /\ \A i \in 1..Len(KeyCells(file)) : ~IsEmptyKey(KeyCells(file)[i])
    /\ ~has_duplicates(KeyTexts(file))

\* session s ends its run with this step, holding a table it read earlier
WriteStep(s) ==
    /\ sess[s].pc \in {"add_read", "edit_loaded", "del_read"}
    /\ sess'[s].pc = "idle"

\* C8: what a session writes is made from the table it read alone, whatever
\* the file holds by the time of the write, and the write is not refused:
\* an Add always succeeds with the table it read plus its row, a successful
\* Update writes the table it read with the edit, a successful Delete the
\* table it read without the rows of its key.
C8_WriteFromOwnSnapshot ==
    [][\A s \in Sessions : WriteStep(s) =>
        /\ sess[s].pc = "add_read" =>
              file' = FileOf(sess[s].df) /\ sess'[s].signals = {"Success"}
        /\ (sess[s].pc = "edit_loaded" /\ "Success" \in sess'[s].signals) =>
              \E edit \in ConcEdits(sess[s].df) :
                  file' = FileOf(data_editor(sess[s].df, edit))
        /\ (sess[s].pc = "del_read" /\ "Success" \in sess'[s].signals) =>
              file' = FileOf([sess[s].df EXCEPT !.rows =
                          SelectSeq(sess[s].df.rows,
                              LAMBDA r : r["admin_id"].s # sess[s].key)])
        /\ "Success" \notin sess'[s].signals => file' = file]_vars

\* C8 witness: session b added key k with success after session a had read
\* the table; a then wrote with success, and k is gone from the file.
C8_Witness ==
    \E a, b \in Sessions :
        /\ a # b
        /\ sess[a].pc = "idle" /\ sess[a].stale
        /\ sess[a].signals = {"Success"}
        /\ sess[b].pc = "idle" /\ sess[b].op = "Add"
        /\ sess[b].signals = {"Success"}
        /\ sess[b].key \notin Values(KeyTexts(file))

\* the rows of f as an Add hands them on: headers trimmed and lowercased,
\* date-like cells as dates
RowsHandedOn(f) == coerce_dates(lower_columns(read_excel(f))).rows

\* C11 (as claimed): whatever the outcome of an Add (success, rejection, a
\* failed check, read or write), every row the file held before is still
\* there afterwards, in place, either as it was or with its headers
\* normalised and its date-like cells coerced; at most one row is appended.
C11_AddKeepsExistingRows ==
    [][last'.op = "Add" =>
        \/ file' = file
        \/ /\ Len(file'.rows) = Len(file.rows) + 1
           /\ \A i \in 1..Len(file.rows) :
                 file'.rows[i] = RowsHandedOn(file)[i]]_vars

\* the session state holds logged_in = True
LoggedIn(ss) == ss_get(ss, "logged_in", FALSE)

\* every request a browser may send while the file is f
Requests(f) ==
    {NoEvent, [NoEvent EXCEPT !.kind = "logout"]}
    \cup {[NoEvent EXCEPT !.kind = "login", !.username = u, !.password = p] :
             u \in Usernames, p \in Passwords}
    \cup {[NoEvent EXCEPT !.kind = "add", !.form = ConcForm(k)] : k \in ConcKeys}
    \cup {[NoEvent EXCEPT !.kind = "save", !.edit = e] :
             e \in ConcEdits(get_table_data(f, TRUE))}
    \cup {[NoEvent EXCEPT !.kind = "delete", !.id = k] : k \in ConcKeys}

\* C12: in every reachable state and for every request of every session:
\* a username is held only next to logged_in = True and is a key of USERS;
\* the run reaches the main application, runs Add, Update or Delete or
\* changes the file only with logged_in true (at the start of the run, or,
\* for the run that follows an accepted login, set by that login); logged_in
\* turns true only by a login submission whose username is a key of USERS
\* and whose password is the one stored for it; and 'Logout' in a logged-in
\* session leaves neither a true flag nor a username, and the file as it is.
C12_LoginGating ==
    \A s \in Sessions :
        /\ ss_has(session_state[s], "username") =>
              /\ LoggedIn(session_state[s])
              /\ session_state[s].username \in DOMAIN USERS
        /\ \A ev \in Requests(file) :
             \A out \in {script_run(excel_folder, selected_table_name,
                                    session_state[s], file, ev)} :
                /\ (out.op \in {"Add", "Update", "Delete"} \/ out.file # file) =>
                      LoggedIn(session_state[s]) /\ LoggedIn(out.state)
                /\ "Welcome" \in out.signals =>
                      IF out.op = "Login" THEN LoggedIn(out.state)
                      ELSE LoggedIn(session_state[s])
                /\ (~LoggedIn(session_state[s]) /\ LoggedIn(out.state)) =>
                      /\ ev.kind = "login"
                      /\ ev.username \in DOMAIN USERS
                      /\ ev.password = USERS[ev.username]
                      /\ out.state.username = ev.username
                /\ (ev.kind = "logout" /\ LoggedIn(session_state[s])) =>
                      /\ out.op = "Logout"
                      /\ ~LoggedIn(out.state)
                      /\ ~ss_has(out.state, "username")
                      /\ out.file = file

\* C12 witness: a session has logged in, added a record with success and
\* logged out, the other session never having sent a request; the session
\* state is back to logged_in = False without a username.
C12_Witness ==
    \E s, t \in Sessions :
        /\ s # t
        /\ session_state[t] = NoState
        /\ sess[s].op = "Logout"
        /\ session_state[s] = ss_set(NoState, "logged_in", FALSE)
        /\ last.op = "Add"
        /\ last.signals = {"Success"}
        /\ file.exists
====
